---- MODULE Spec2Model ----
(***************************************************************************)
(* State derivation and dual-tier persistence of telemetry                 *)
(* (src/app/models/request_models.py).                                     *)
(*                                                                         *)
(* Units.  Timestamps are whole seconds.  Positions are points of a local  *)
(* plane in metres, chosen so that every pairwise distance is a whole      *)
(* number of metres; distance_travelled is kept in metres (the source      *)
(* keeps the same length in km).  speed is an exact fraction <<num, den>>  *)
(* in lowest terms, metres per hour.  An optional value is a sequence of   *)
(* length 0 (None / key absent) or 1.                                      *)
(***************************************************************************)
EXTENDS Integers, Sequences, FiniteSets, TLC

\* ---------------------------------------------------------------- bounds
MaxSaves == 3
MaxCalls == 2

\* ------------------------------------------------------------- constants
TELEMETRY_REMEMBER_DELAY == 60
LAP_ADD_RADIUS_METERS == 3
SecondsPerDay == 86400
SecondsPerHour == 3600

TEMP_SAVED == "temporary saved"
PERM_SAVED == "permanently saved"
FAILED == "fail"

NotFound == "FileNotFoundError"
ValidationError == "ValidationError"
StoreError == "StoreError"
Ok == "ok"

None == <<>>
Some(v) == <<v>>

\* ----------------------------------------------------------------- inputs
Times == {0, 30, 90, 7290, 93600}
Positions == {<<0, 0>>, <<3, 0>>, <<0, 4>>}
Readings == {
  [controller_watts |-> 1, time_to_go |-> 2, controller_volts |-> 3,
   MPPT_volts |-> 4, MPPT_watts |-> 5, motor_temp |-> 6, motor_revols |-> 7] }

Telemetry == 
  { [created_at |-> t, controller_watts |-> r.controller_watts,
     time_to_go |-> r.time_to_go, controller_volts |-> r.controller_volts,
     MPPT_volts |-> r.MPPT_volts, MPPT_watts |-> r.MPPT_watts,
     motor_temp |-> r.motor_temp, motor_revols |-> r.motor_revols,
     position_lat |-> p[1], position_lng |-> p[2]]
    : t \in Times, p \in Positions, r \in Readings }

\* ------------------------------------------------------------- arithmetic
RECURSIVE GCD(_, _)
GCD(a, b) == IF b = 0 THEN a ELSE GCD(b, a % b)

Frac(n, d) == LET g == GCD(n, d) IN <<n \div g, d \div g>>

RECURSIVE ISqrtFrom(_, _)
ISqrtFrom(n, k) == IF (k + 1) * (k + 1) > n THEN k ELSE ISqrtFrom(n, k + 1)

\* geopy.distance.geodesic(a, b).m on the local plane
geodesic(a, b) ==
  LET dx == a[1] - b[1]
      dy == a[2] - b[2]
  IN ISqrtFrom(dx * dx + dy * dy, 0)

\* timedelta.seconds: the seconds field of the normalised timedelta
\* (days, seconds), always in 0..86399
timedelta_seconds(e) == e % SecondsPerDay

\* PointSet(lng=..., lat=...): both fields are required floats, so the
\* constructor raises ValidationError when either is None
PointSet(lng, lat) ==
  IF lng = None \/ lat = None
  THEN [raised |-> TRUE, value |-> None]
  ELSE [raised |-> FALSE, value |-> Some([lng |-> lng, lat |-> lat])]

\* ------------------------------------------------------------------ State
State(t) ==
  [created_at |-> t.created_at, controller_watts |-> t.controller_watts,
   time_to_go |-> t.time_to_go, controller_volts |-> t.controller_volts,
   MPPT_volts |-> t.MPPT_volts, MPPT_watts |-> t.MPPT_watts,
   motor_temp |-> t.motor_temp, motor_revols |-> t.motor_revols,
   position_lat |-> t.position_lat, position_lng |-> t.position_lng,
   speed |-> <<0, 1>>, distance_travelled |-> 0, laps |-> 0,
   lap_point_lat |-> None, lap_point_lng |-> None]

get_current_state(db) ==
  IF db = None THEN [raised |-> TRUE, value |-> None]
  ELSE [raised |-> FALSE, value |-> db]

\* pgTelemetry.get_last: the row inserted last, None for an empty table
pgTelemetry_get_last(session) ==
  IF Len(session) = 0 THEN None ELSE Some(session[Len(session)])

\* pgTelemetry.save_from_schema: one more row holding the State's fields
pgTelemetry_save_from_schema(self, session) == Append(session, self)

get_pg_state(session) == pgTelemetry_get_last(session)

count_laps_strict(self, prev) ==
  LET lap_coord == <<self.lap_point_lat[1], self.lap_point_lng[1]>>
      prev_coord == <<prev.position_lat, prev.position_lng>>
      cur_coord == <<self.position_lat, self.position_lng>>
      prev_dist == geodesic(prev_coord, lap_coord)
      cur_dist == geodesic(cur_coord, lap_coord)
  IN IF prev_dist > LAP_ADD_RADIUS_METERS /\ LAP_ADD_RADIUS_METERS > cur_dist
     THEN [self EXCEPT !.laps = @ + 1]
     ELSE self

count_laps(self, prev) ==
  LET lap_coord == <<self.lap_point_lat[1], self.lap_point_lng[1]>>
      prev_coord == <<prev.position_lat, prev.position_lng>>
      cur_coord == <<self.position_lat, self.position_lng>>
      prev_dist == geodesic(prev_coord, lap_coord)
      cur_dist == geodesic(cur_coord, lap_coord)
  IN IF prev_dist > LAP_ADD_RADIUS_METERS /\ LAP_ADD_RADIUS_METERS >= cur_dist
     THEN [self EXCEPT !.laps = @ + 1]
     ELSE self

update_from_previous_no_sum(self, prev) ==
  LET cur_coord == <<self.position_lat, self.position_lng>>
      prev_coord == <<prev.position_lat, prev.position_lng>>
      secs == timedelta_seconds(self.created_at - prev.created_at)
      distance == geodesic(cur_coord, prev_coord)
      speed == IF secs > SecondsPerHour
               THEN Frac(distance * SecondsPerHour, secs)
               ELSE Frac(distance, 1)
      s1 == [self EXCEPT !.speed = speed,
                         !.distance_travelled = distance,
                         !.laps = prev.laps,
                         !.lap_point_lat = prev.lap_point_lat,
                         !.lap_point_lng = prev.lap_point_lng]
  IN IF s1.lap_point_lng # None /\ s1.lap_point_lat # None
     THEN count_laps(s1, prev)
     ELSE s1

update_from_previous(self, prev) ==
  LET cur_coord == <<self.position_lat, self.position_lng>>
      prev_coord == <<prev.position_lat, prev.position_lng>>
      secs == timedelta_seconds(self.created_at - prev.created_at)
      distance == geodesic(cur_coord, prev_coord)
      \* distance / max(secs / 3600, 1)
      speed == IF secs > SecondsPerHour
               THEN Frac(distance * SecondsPerHour, secs)
               ELSE Frac(distance, 1)
      s1 == [self EXCEPT !.speed = speed,
                         !.distance_travelled = prev.distance_travelled + distance,
                         !.laps = prev.laps,
                         !.lap_point_lat = prev.lap_point_lat,
                         !.lap_point_lng = prev.lap_point_lng]
  IN IF s1.lap_point_lng # None /\ s1.lap_point_lat # None
     THEN count_laps(s1, prev)
     ELSE s1

from_telemetry(telemetry, db) ==
  LET res == State(telemetry)
      cur == get_current_state(db)
  IN IF cur.raised THEN res ELSE update_from_previous(res, cur.value[1])

save_redis(self) == Some(self)

save_pg(self, session) == pgTelemetry_save_from_schema(self, session)

save_first_hot_only(self, db, session) ==
  LET cur == get_current_state(db) IN
  IF cur.raised
  THEN [db |-> save_redis(self), session |-> session, ret |-> TEMP_SAVED]
  ELSE LET db1 == IF cur.value[1].created_at < self.created_at
                  THEN save_redis(self) ELSE db
           prev == get_pg_state(session)
       IN IF prev = None
             \/ self.created_at - prev[1].created_at > TELEMETRY_REMEMBER_DELAY
          THEN [db |-> db1, session |-> save_pg(self, session), ret |-> PERM_SAVED]
          ELSE [db |-> db1, session |-> session, ret |-> TEMP_SAVED]

save_delay_inclusive(self, db, session) ==
  LET cur == get_current_state(db) IN
  IF cur.raised
  THEN [db |-> save_redis(self), session |-> save_pg(self, session),
        ret |-> PERM_SAVED]
  ELSE LET db1 == IF cur.value[1].created_at < self.created_at
                  THEN save_redis(self) ELSE db
           prev == get_pg_state(session)
       IN IF prev = None
             \/ self.created_at - prev[1].created_at >= TELEMETRY_REMEMBER_DELAY
          THEN [db |-> db1, session |-> save_pg(self, session), ret |-> PERM_SAVED]
          ELSE [db |-> db1, session |-> session, ret |-> TEMP_SAVED]

save_hot_on_equal(self, db, session) ==
  LET cur == get_current_state(db) IN
  IF cur.raised
  THEN [db |-> save_redis(self), session |-> save_pg(self, session),
        ret |-> PERM_SAVED]
  ELSE LET db1 == IF cur.value[1].created_at <= self.created_at
                  THEN save_redis(self) ELSE db
           prev == get_pg_state(session)
       IN IF prev = None
             \/ self.created_at - prev[1].created_at > TELEMETRY_REMEMBER_DELAY
          THEN [db |-> db1, session |-> save_pg(self, session), ret |-> PERM_SAVED]
          ELSE [db |-> db1, session |-> session, ret |-> TEMP_SAVED]

save_always_append(self, db, session) ==
  LET cur == get_current_state(db) IN
  IF cur.raised
  THEN [db |-> save_redis(self), session |-> save_pg(self, session),
        ret |-> PERM_SAVED]
  ELSE LET db1 == IF cur.value[1].created_at < self.created_at
                  THEN save_redis(self) ELSE db
           prev == get_pg_state(session)
       IN IF prev = None \/ TRUE
          THEN [db |-> db1, session |-> save_pg(self, session), ret |-> PERM_SAVED]
          ELSE [db |-> db1, session |-> session, ret |-> TEMP_SAVED]

save(self, db, session) ==
  LET cur == get_current_state(db) IN
  IF cur.raised
  THEN [db |-> save_redis(self), session |-> save_pg(self, session),
        ret |-> PERM_SAVED]
  ELSE LET db1 == IF cur.value[1].created_at < self.created_at
                  THEN save_redis(self) ELSE db
           prev == get_pg_state(session)
       IN IF prev = None
             \/ self.created_at - prev[1].created_at > TELEMETRY_REMEMBER_DELAY
          THEN [db |-> db1, session |-> save_pg(self, session), ret |-> PERM_SAVED]
          ELSE [db |-> db1, session |-> session, ret |-> TEMP_SAVED]

\* State.save when the stores named in faults raise on a write: the
\* exception of _save_redis or _save_pg leaves save at that statement and
\* reaches the caller; what was written before it stays written
save_with_faults(self, db, session, faults) ==
  LET cur == get_current_state(db)
      redisFails == "redis" \in faults
      pgFails == "pg" \in faults
  IN
  IF cur.raised
  THEN IF redisFails
       THEN [db |-> db, session |-> session, ret |-> None, err |-> StoreError]
       ELSE IF pgFails
            THEN [db |-> save_redis(self), session |-> session,
                  ret |-> None, err |-> StoreError]
            ELSE [db |-> save_redis(self), session |-> save_pg(self, session),
                  ret |-> Some(PERM_SAVED), err |-> Ok]
  ELSE LET writes == cur.value[1].created_at < self.created_at
           db1 == IF writes THEN save_redis(self) ELSE db
           prev == get_pg_state(session)
       IN IF writes /\ redisFails
          THEN [db |-> db, session |-> session, ret |-> None, err |-> StoreError]
          ELSE IF prev = None
                  \/ self.created_at - prev[1].created_at > TELEMETRY_REMEMBER_DELAY
               THEN IF pgFails
                    THEN [db |-> db1, session |-> session,
                          ret |-> None, err |-> StoreError]
                    ELSE [db |-> db1, session |-> save_pg(self, session),
                          ret |-> Some(PERM_SAVED), err |-> Ok]
               ELSE [db |-> db1, session |-> session,
                     ret |-> Some(TEMP_SAVED), err |-> Ok]

\* ------------------------------------------------------- operator calls
\* each returns the Redis slot after the call, the value returned and how
\* the call ended (Ok or the exception raised)
set_point(db) ==
  LET cur == get_current_state(db) IN
  IF cur.raised THEN [db |-> db, ret |-> None, err |-> NotFound]
  ELSE LET prev == [cur.value[1] EXCEPT
                      !.lap_point_lng = Some(cur.value[1].position_lng),
                      !.lap_point_lat = Some(cur.value[1].position_lat),
                      !.laps = 0]
       IN [db |-> save_redis(prev),
           ret |-> Some([lng |-> prev.lap_point_lng, lat |-> prev.lap_point_lat]),
           err |-> Ok]

reset_point(db) ==
  LET cur == get_current_state(db) IN
  IF cur.raised THEN [db |-> db, ret |-> None, err |-> NotFound]
  ELSE LET prev == [cur.value[1] EXCEPT !.lap_point_lng = None,
                                        !.lap_point_lat = None,
                                        !.laps = 0]
       IN [db |-> save_redis(prev), ret |-> None, err |-> Ok]

reset_distance_and_laps(db) ==
  LET cur == get_current_state(db) IN
  IF cur.raised THEN [db |-> db, ret |-> None, err |-> NotFound]
  ELSE LET prev == [cur.value[1] EXCEPT !.distance_travelled = 0, !.laps = 0]
       IN [db |-> save_redis(prev), ret |-> None, err |-> Ok]

reset_distance(db) ==
  LET cur == get_current_state(db) IN
  IF cur.raised THEN [db |-> db, ret |-> None, err |-> NotFound]
  ELSE LET prev == [cur.value[1] EXCEPT !.distance_travelled = 0]
       IN [db |-> save_redis(prev), ret |-> None, err |-> Ok]

remove_point(db) ==
  LET cur == get_current_state(db) IN
  IF cur.raised THEN [db |-> db, ret |-> None, err |-> NotFound]
  ELSE LET prev == [cur.value[1] EXCEPT !.lap_point_lng = None,
                                        !.lap_point_lat = None,
                                        !.laps = 0]
           ps == PointSet(prev.lap_point_lng, prev.lap_point_lat)
       IN [db |-> save_redis(prev),
           ret |-> ps.value,
           err |-> IF ps.raised THEN ValidationError ELSE Ok]

clear_distance_swallow(db) ==
  LET cur == get_current_state(db) IN
  IF cur.raised THEN [db |-> db, ret |-> None, err |-> Ok]
  ELSE LET prev == [cur.value[1] EXCEPT !.distance_travelled = 0]
       IN [db |-> save_redis(prev), ret |-> None, err |-> Ok]

clear_distance(db) ==
  LET cur == get_current_state(db) IN
  IF cur.raised THEN [db |-> db, ret |-> None, err |-> NotFound]
  ELSE LET prev == [cur.value[1] EXCEPT !.distance_travelled = 0]
       IN [db |-> save_redis(prev), ret |-> None, err |-> Ok]

\* ------------------------------------------------------------------ state
VARIABLES
  hot,      \* Redis slot CURRENT_STATE_KEY: None or Some(State)
  durable,  \* telemetry table: sequence of States in insertion order
  call,     \* the last completed call: operation, argument, stores as the
            \* call found them, the State it built and what it returned
  saves,    \* the save calls completed so far: <<created_at, status>>
  seenPos,  \* the positions of the samples ingested so far
  lapTrack, \* since the last successful set_point, while no other operator
            \* call has changed the slot: the lap point and the number of
            \* outside-to-inside moves between successive hot positions
  tasks     \* the calls in progress when calls interleave at their awaits

vars == <<hot, durable, call, saves, seenPos, lapTrack, tasks>>

Tasks == {1, 2}

IdleTask == [pc |-> "idle", n |-> 0, op |-> "none", base |-> None,
             self |-> None, snap |-> None, pending |-> None,
             ret |-> None, err |-> Ok]

Position(s) == <<s.position_lat, s.position_lng>>

\* an outside-to-inside move of the hot position with respect to anchor
Entered(anchor, from, to) ==
  /\ geodesic(from, anchor) > LAP_ADD_RADIUS_METERS
  /\ geodesic(to, anchor) <= LAP_ADD_RADIUS_METERS

Init ==
  /\ hot = None
  /\ durable = <<>>
  /\ call = [op |-> "init", arg |-> None, base |-> None, dbase |-> <<>>,
             res |-> None, ret |-> None, err |-> Ok]
  /\ saves = <<>>
  /\ seenPos = {}
  /\ lapTrack = None
  /\ tasks = [p \in Tasks |-> IdleTask]

\* Telemetry.save_current_state, run to completion
SaveCurrentState(t) ==
  /\ Len(saves) < MaxSaves
  /\ LET state == from_telemetry(t, hot)
         r == save(state, hot, durable)
     IN /\ hot' = r.db
        /\ durable' = r.session
        /\ call' = [op |-> "save", arg |-> Some(t), base |-> hot,
                    dbase |-> durable, res |-> Some(state),
                    ret |-> Some(r.ret), err |-> Ok]
        /\ saves' = Append(saves, <<t.created_at, r.ret>>)
        /\ seenPos' = seenPos \cup {<<t.position_lat, t.position_lng>>}
        /\ lapTrack' =
             IF lapTrack = None \/ r.db = hot THEN lapTrack
             ELSE IF Entered(lapTrack[1].anchor, Position(hot[1]), Position(r.db[1]))
                  THEN Some([lapTrack[1] EXCEPT !.n = @ + 1])
                  ELSE lapTrack
        /\ UNCHANGED tasks

OperatorCall_persisting(name, r) ==
  /\ hot' = r.db
  /\ call' = [op |-> name, arg |-> None, base |-> hot, dbase |-> durable,
              res |-> None, ret |-> r.ret, err |-> r.err]
  /\ lapTrack' =
       IF name = "get_current_state" THEN lapTrack
       ELSE IF name = "set_point" /\ r.err = Ok
            THEN Some([anchor |-> <<r.ret[1].lat[1], r.ret[1].lng[1]>>, n |-> 0])
            ELSE None
  /\ durable' = IF r.db = hot THEN durable ELSE save_pg(r.db[1], durable)
  /\ UNCHANGED <<saves, seenPos, tasks>>

OperatorCall(name, r) ==
  /\ hot' = r.db
  /\ call' = [op |-> name, arg |-> None, base |-> hot, dbase |-> durable,
              res |-> None, ret |-> r.ret, err |-> r.err]
  /\ lapTrack' =
       IF name = "get_current_state" THEN lapTrack
       ELSE IF name = "set_point" /\ r.err = Ok
            THEN Some([anchor |-> <<r.ret[1].lat[1], r.ret[1].lng[1]>>, n |-> 0])
            ELSE None
  /\ UNCHANGED <<durable, saves, seenPos, tasks>>

GetCurrentState ==
  LET cur == get_current_state(hot) IN
  OperatorCall("get_current_state",
               [db |-> hot, ret |-> cur.value,
                err |-> IF cur.raised THEN NotFound ELSE Ok])

SetPoint == OperatorCall("set_point", set_point(hot))

ResetPoint == OperatorCall("reset_point", reset_point(hot))

ResetDistance == OperatorCall("reset_distance", reset_distance(hot))

RemovePoint == OperatorCall("remove_point", remove_point(hot))

ClearDistance == OperatorCall("clear_distance", clear_distance(hot))

Next ==
  \/ \E t \in Telemetry : SaveCurrentState(t)
  \/ GetCurrentState
  \/ SetPoint
  \/ ResetPoint
  \/ ResetDistance
  \/ RemovePoint
  \/ ClearDistance

Spec == Init /\ [][Next]_vars

\* ------------------------------------------------ saves with store faults
Faults == SUBSET {"redis", "pg"}

\* Telemetry.save_current_state, run to completion, with the writes to the
\* stores in faults raising
SaveCurrentStateFaulty(t, faults) ==
  /\ Len(saves) < MaxSaves
  /\ LET state == from_telemetry(t, hot)
         r == save_with_faults(state, hot, durable, faults)
     IN /\ hot' = r.db
        /\ durable' = r.session
        /\ call' = [op |-> "save", arg |-> Some(t), base |-> hot,
                    dbase |-> durable, res |-> Some(state),
                    ret |-> r.ret, err |-> r.err]
        /\ saves' = Append(saves, <<t.created_at,
                                    IF r.err = Ok THEN r.ret[1] ELSE r.err>>)
        /\ seenPos' = seenPos \cup {<<t.position_lat, t.position_lng>>}
        /\ UNCHANGED <<lapTrack, tasks>>

NextFaulty == \E t \in Telemetry : \E faults \in Faults : SaveCurrentStateFaulty(t, faults)

SpecFaulty == Init /\ [][NextFaulty]_vars

TypeOK ==
  /\ Len(hot) \in {0, 1}
  /\ Len(saves) <= MaxSaves
\* ------------------------------------------------------------ properties
SaveOnEmpty == call.op = "save" /\ call.base = None
SaveOnPresent == call.op = "save" /\ call.base # None

OperatorOps ==
  {"set_point", "reset_point", "remove_point", "reset_distance", "clear_distance"}
AnchorOps == {"set_point", "reset_point", "remove_point"}
DistanceOps == {"reset_distance", "clear_distance"}

SaveTimes == {saves[i][1] : i \in DOMAIN saves}
MaxTime(S) == CHOOSE m \in S : \A x \in S : x <= m
StrictlyIncreasing == \A i \in 1..(Len(saves) - 1) : saves[i][1] < saves[i + 1][1]

\* C1: a save that finds the hot store empty builds a State that copies
\* every sample field and has speed 0, distance_travelled 0, laps 0 and no
\* lap point; that State is the hot store's value and the row appended to
\* the durable log, and the save returns PERM_SAVED.
C1_FirstSample ==
  SaveOnEmpty =>
    LET t == call.arg[1]
        s == [created_at |-> t.created_at,
              controller_watts |-> t.controller_watts,
              time_to_go |-> t.time_to_go,
              controller_volts |-> t.controller_volts,
              MPPT_volts |-> t.MPPT_volts, MPPT_watts |-> t.MPPT_watts,
              motor_temp |-> t.motor_temp, motor_revols |-> t.motor_revols,
              position_lat |-> t.position_lat, position_lng |-> t.position_lng,
              speed |-> <<0, 1>>, distance_travelled |-> 0, laps |-> 0,
              lap_point_lat |-> <<>>, lap_point_lng |-> <<>>]
    IN /\ call.res = <<s>>
       /\ hot = <<s>>
       /\ durable = Append(call.dbase, s)
       /\ call.ret = <<PERM_SAVED>>

C1_Witness == SaveOnEmpty /\ hot # None /\ Len(durable) = 1

\* C2: a save that finds the hot store non-empty appends the derived State
\* to the durable log and returns PERM_SAVED exactly when the log is empty
\* or sample.created_at - latest.created_at > TELEMETRY_REMEMBER_DELAY;
\* otherwise the log is unchanged and it returns TEMP_SAVED.  With a delay
\* of 60 s, saves at 0, 30, 90 return PERM, TEMP, PERM and leave two rows.
C2_DurableThrottle ==
  /\ SaveOnPresent =>
       LET t == call.arg[1]
           n == Len(call.dbase)
       IN IF n = 0 \/ t.created_at - call.dbase[n].created_at > TELEMETRY_REMEMBER_DELAY
          THEN durable = Append(call.dbase, call.res[1]) /\ call.ret = <<PERM_SAVED>>
          ELSE durable = call.dbase /\ call.ret = <<TEMP_SAVED>>
  /\ (Len(saves) = 3 /\ saves[1][1] = 0 /\ saves[2][1] = 30 /\ saves[3][1] = 90) =>
       /\ saves[1][2] = PERM_SAVED
       /\ saves[2][2] = TEMP_SAVED
       /\ saves[3][2] = PERM_SAVED
       /\ Len(durable) = 2

C2_Witness ==
  /\ Len(saves) = 3 /\ saves[1][1] = 0 /\ saves[2][1] = 30 /\ saves[3][1] = 90
  /\ Len(durable) = 2

\* a save whose sample is exactly TELEMETRY_REMEMBER_DELAY after the latest
\* durable row returned TEMP_SAVED
C2_WitnessEqualDelay ==
  /\ SaveOnPresent /\ Len(call.dbase) > 0
  /\ call.arg[1].created_at - call.dbase[Len(call.dbase)].created_at
       = TELEMETRY_REMEMBER_DELAY
  /\ call.ret = <<TEMP_SAVED>>

\* C3: a save that finds the hot store non-empty overwrites it with the
\* derived State exactly when hot.created_at < sample.created_at, whatever
\* the durable decision; after any sequence of saves the hot store's
\* created_at is the maximum created_at of the samples ingested so far.
C3_HotIsNewest ==
  /\ SaveOnPresent =>
       IF call.base[1].created_at < call.arg[1].created_at
       THEN hot = call.res
       ELSE hot = call.base
  /\ saves # <<>> => hot # None /\ hot[1].created_at = MaxTime(SaveTimes)

\* the hot store was overwritten by a save that made no durable append, after
\* an earlier save had been ignored as not newer
C3_Witness ==
  /\ SaveOnPresent /\ call.ret = <<TEMP_SAVED>>
  /\ hot = call.res /\ hot # call.base
  /\ ~StrictlyIncreasing

\* C4: every two successive rows of the durable log have created_at values
\* that differ by more than TELEMETRY_REMEMBER_DELAY.
C4_DurableSpacing ==
  \A i \in 1..(Len(durable) - 1) :
    durable[i + 1].created_at - durable[i].created_at > TELEMETRY_REMEMBER_DELAY

C4_Witness == Len(durable) >= 2 /\ \E i \in DOMAIN saves : saves[i][2] = TEMP_SAVED

\* C5: deriving from a previous hot State with a lap point set adds exactly
\* 1 to laps when the previous position is farther than the radius from the
\* lap point and the sample position is within (<=) the radius, and 0 in
\* every other case; with no lap point laps is carried over unchanged.
C5_LapEdge ==
  SaveOnPresent =>
    LET b == call.base[1]
        s == call.res[1]
    IN IF b.lap_point_lat # <<>> /\ b.lap_point_lng # <<>>
       THEN LET anchor == <<b.lap_point_lat[1], b.lap_point_lng[1]>>
                dprev == geodesic(<<b.position_lat, b.position_lng>>, anchor)
                dcur == geodesic(<<s.position_lat, s.position_lng>>, anchor)
            IN s.laps - b.laps =
                 IF dprev > LAP_ADD_RADIUS_METERS /\ dcur <= LAP_ADD_RADIUS_METERS
                 THEN 1 ELSE 0
       ELSE s.laps = b.laps

\* a lap was counted for a sample exactly on the radius
C5_Witness ==
  /\ SaveOnPresent /\ call.base[1].lap_point_lat # None
  /\ call.res[1].laps = call.base[1].laps + 1
  /\ geodesic(<<call.res[1].position_lat, call.res[1].position_lng>>,
              <<call.base[1].lap_point_lat[1], call.base[1].lap_point_lng[1]>>)
       = LAP_ADD_RADIUS_METERS

C7_DistanceMonotone ==
  [][(hot # None /\ hot' # None
        /\ hot'[1].distance_travelled < hot[1].distance_travelled)
       => call'.op \in DistanceOps]_vars

\* a save moved the hot State on over a positive distance after an earlier
\* positive distance
C7_Witness ==
  /\ SaveOnPresent /\ hot = call.res
  /\ call.base[1].distance_travelled > 0
  /\ hot[1].distance_travelled = call.base[1].distance_travelled
  /\ StrictlyIncreasing

\* C8: for a sample newer than the hot State it is derived from,
\* distance_travelled is the hot State's plus the distance between the two
\* positions; while all samples have strictly increasing created_at and one
\* position, distance_travelled and speed of the hot State are 0.
C8_DistanceSum ==
  /\ (SaveOnPresent /\ call.base[1].created_at < call.arg[1].created_at) =>
       LET b == call.base[1]
           s == call.res[1]
       IN /\ hot = call.res
          /\ s.distance_travelled = b.distance_travelled
               + geodesic(<<b.position_lat, b.position_lng>>,
                          <<s.position_lat, s.position_lng>>)
  /\ (hot # None /\ StrictlyIncreasing /\ Cardinality(seenPos) = 1) =>
       hot[1].distance_travelled = 0 /\ hot[1].speed = <<0, 1>>

C8_Witness ==
  /\ SaveOnPresent /\ call.base[1].created_at < call.arg[1].created_at
  /\ call.base[1].distance_travelled > 0
  /\ call.res[1].distance_travelled > call.base[1].distance_travelled

C8_WitnessFixedPosition ==
  Len(saves) = MaxSaves /\ StrictlyIncreasing /\ Cardinality(seenPos) = 1

\* C9: the derived speed is d / max(E / 3600, 1) with d the distance between
\* the two positions and E the full signed elapsed time
\* sample.created_at - previous.created_at in seconds.
C9_SpeedFullElapsed ==
  SaveOnPresent =>
    LET b == call.base[1]
        s == call.res[1]
        E == s.created_at - b.created_at
        d == geodesic(<<s.position_lat, s.position_lng>>,
                      <<b.position_lat, b.position_lng>>)
    IN IF E > SecondsPerHour
       THEN s.speed[1] * E = d * SecondsPerHour * s.speed[2]
       ELSE s.speed[1] = d * s.speed[2]

\* C10: set_point, reset_point, remove_point, reset_distance, clear_distance
\* and get_current_state called on an empty hot store end in
\* FileNotFoundError and leave the hot store empty and the durable log as
\* it was.
C10_NotFound ==
  (call.op \in OperatorOps \cup {"get_current_state"} /\ call.base = None) =>
    /\ call.err = NotFound
    /\ hot = None
    /\ durable = call.dbase

C10_Witness ==
  /\ call.op = "clear_distance" /\ call.base = None
  /\ call.err = NotFound
InOrder == \A i \in 1..(Len(saves) - 1) : saves[i][1] <= saves[i + 1][1]

\* C11: set_point, reset_point, remove_point, reset_distance and
\* clear_distance never change the durable log, whether the call succeeds
\* or fails.
C11_OperatorsKeepDurable ==
  [][call'.op \in OperatorOps => durable' = durable]_vars

C11_Witness ==
  /\ call.op = "set_point" /\ call.err = Ok
  /\ hot # call.base
  /\ Len(durable) >= 2

\* C12: reset_distance and clear_distance on a present hot State set
\* distance_travelled to 0 and leave every other field as it was.
C12_ResetDistanceFrame ==
  (call.op \in DistanceOps /\ call.base # None) =>
    /\ call.err = Ok
    /\ hot = <<[call.base[1] EXCEPT !.distance_travelled = 0]>>

C12_Witness ==
  /\ call.op = "reset_distance" /\ call.base # None
  /\ call.base[1].distance_travelled > 0
  /\ call.base[1].laps >= 1
  /\ call.base[1].lap_point_lat # None

\* C13: on a present hot State, set_point followed immediately by
\* remove_point leaves the hot State with no lap point and laps 0, and the
\* remove_point call ends without an error, returning the absent lap point.
C13_SetThenRemove ==
  [][(call.op = "set_point" /\ call.err = Ok /\ call'.op = "remove_point")
       => /\ hot' # None
          /\ hot'[1].lap_point_lat = None
          /\ hot'[1].lap_point_lng = None
          /\ hot'[1].laps = 0
          /\ call'.err = Ok]_vars

\* C15: while the samples are ingested in created_at order, the hot
\* State's created_at never moves backwards and the created_at values of
\* the durable rows are strictly increasing in insertion order.
C15_InOrder ==
  /\ [][(InOrder' /\ hot # None /\ hot' # None)
          => hot'[1].created_at >= hot[1].created_at]_vars
  /\ [](InOrder =>
          \A i \in 1..(Len(durable) - 1) :
            durable[i].created_at < durable[i + 1].created_at)

\* three samples in order, two of them with the same created_at, two rows
C15_Witness ==
  /\ Len(saves) = 3 /\ InOrder /\ ~StrictlyIncreasing
  /\ Len(durable) = 2

\* C18: the hot store is non-empty exactly when the durable log is, and
\* 0 <= hot.created_at - latest.created_at <= TELEMETRY_REMEMBER_DELAY.
C18_HotNearLatest ==
  /\ (hot # None) <=> (Len(durable) > 0)
  /\ hot # None =>
       LET gap == hot[1].created_at - durable[Len(durable)].created_at
       IN 0 <= gap /\ gap <= TELEMETRY_REMEMBER_DELAY

\* the hot State is exactly TELEMETRY_REMEMBER_DELAY ahead of the latest row
C18_Witness ==
  /\ hot # None /\ Len(durable) > 0
  /\ hot[1].created_at - durable[Len(durable)].created_at = TELEMETRY_REMEMBER_DELAY

\* C19: a save whose sample is not newer than the hot State changes neither
\* the hot store nor the durable log and returns TEMP_SAVED.
C19_StaleSample ==
  (SaveOnPresent /\ call.arg[1].created_at <= call.base[1].created_at) =>
    /\ hot = call.base
    /\ durable = call.dbase
    /\ call.ret = <<TEMP_SAVED>>

\* a stale sample at another position, with the same created_at
C19_Witness ==
  /\ SaveOnPresent /\ call.arg[1].created_at = call.base[1].created_at
  /\ Position(call.arg[1]) # Position(call.base[1])
  /\ call.ret = <<TEMP_SAVED>>

\* C20: after a successful set_point and with no further operator call,
\* laps of the hot State is the number of outside-to-inside moves between
\* successive hot positions since the set_point (0 until the first one).
C20_LapsCountEntries ==
  lapTrack # None =>
    /\ hot # None
    /\ hot[1].lap_point_lat = <<lapTrack[1].anchor[1]>>
    /\ hot[1].lap_point_lng = <<lapTrack[1].anchor[2]>>
    /\ hot[1].laps = lapTrack[1].n

C20_Witness ==
  /\ lapTrack # None /\ lapTrack[1].n >= 1
  /\ call.op = "save" /\ hot = call.res
\* --------------------------------------- calls interleaved at their awaits
\* Every await on Redis (RedisDB.get, RedisDB.set) is a point where another
\* call may run; the code between two awaits runs without interruption.
\* No lock and no compare-and-swap guards the slot.
ConcTelemetry == {t \in Telemetry : t.created_at \in {0, 30}}

OperatorResult(name, db) ==
  CASE name = "set_point" -> set_point(db)
    [] name = "reset_point" -> reset_point(db)
    [] name = "reset_distance" -> reset_distance(db)
    [] name = "remove_point" -> remove_point(db)
    [] name = "clear_distance" -> clear_distance(db)

ConcFrame == UNCHANGED <<call, saves, seenPos, lapTrack>>

\* save_current_state up to the await in from_telemetry: read the slot and
\* derive the new State from what was read
FromTelemetry(p, t) ==
  /\ tasks[p].pc = "idle" /\ tasks[p].n < MaxCalls
  /\ tasks' = [tasks EXCEPT ![p] =
                 [pc |-> "save_get", n |-> @.n + 1, op |-> "save", base |-> hot,
                  self |-> Some(from_telemetry(t, hot)), snap |-> None,
                  pending |-> None, ret |-> None, err |-> Ok]]
  /\ UNCHANGED <<hot, durable>>
  /\ ConcFrame

\* State.save from its get_current_state to the next await: either a
\* _save_redis is issued, or save goes straight on to the durable decision
SaveGet(p) ==
  /\ tasks[p].pc = "save_get"
  /\ LET r == save(tasks[p].self[1], hot, durable) IN
     IF r.db # hot
     THEN /\ tasks' = [tasks EXCEPT ![p].pc = "save_set", ![p].snap = hot,
                                    ![p].pending = r.db]
          /\ UNCHANGED <<hot, durable>>
     ELSE /\ tasks' = [tasks EXCEPT ![p].pc = "idle", ![p].snap = hot,
                                    ![p].ret = Some(r.ret)]
          /\ durable' = r.session
          /\ UNCHANGED hot
  /\ ConcFrame

\* the RedisDB.set of _save_redis takes effect
SaveSet(p) ==
  /\ tasks[p].pc = "save_set"
  /\ hot' = tasks[p].pending
  /\ tasks' = [tasks EXCEPT ![p].pc = "save_pg"]
  /\ UNCHANGED durable
  /\ ConcFrame

\* State.save after its _save_redis: the durable decision and the return
SavePg(p) ==
  /\ tasks[p].pc = "save_pg"
  /\ LET r == save(tasks[p].self[1], tasks[p].snap, durable) IN
     /\ durable' = r.session
     /\ tasks' = [tasks EXCEPT ![p].pc = "idle", ![p].ret = Some(r.ret)]
  /\ UNCHANGED hot
  /\ ConcFrame

\* an operator call up to its _save_redis: read the slot, change the copy
OperatorGet(p, name) ==
  /\ tasks[p].pc = "idle" /\ tasks[p].n < MaxCalls
  /\ LET r == OperatorResult(name, hot) IN
     tasks' = [tasks EXCEPT ![p] =
                 [pc |-> IF r.err = NotFound THEN "idle" ELSE "op_set",
                  n |-> @.n + 1, op |-> name, base |-> hot, self |-> None,
                  snap |-> hot, pending |-> r.db, ret |-> r.ret, err |-> r.err]]
  /\ UNCHANGED <<hot, durable>>
  /\ ConcFrame

\* the RedisDB.set of the operator call takes effect and the call returns
OperatorSet(p) ==
  /\ tasks[p].pc = "op_set"
  /\ hot' = tasks[p].pending
  /\ tasks' = [tasks EXCEPT ![p].pc = "idle"]
  /\ UNCHANGED durable
  /\ ConcFrame

NextConc ==
  \E p \in Tasks :
    \/ \E t \in ConcTelemetry : FromTelemetry(p, t)
    \/ SaveGet(p)
    \/ SaveSet(p)
    \/ SavePg(p)
    \/ \E name \in OperatorOps : OperatorGet(p, name)
    \/ OperatorSet(p)

SpecConc == Init /\ [][NextConc]_vars

IsSaveWrite(p) == tasks[p].pc = "save_set" /\ tasks'[p].pc = "save_pg"
IsOperatorWrite(p) == tasks[p].pc = "op_set" /\ tasks'[p].pc = "idle"

\* C14: when two saves have read the same hot State as their baseline, the
\* one that writes second does not take the hot State's laps or
\* distance_travelled below what the first one wrote.
C14_NoLostUpdate ==
  [][\A p, q \in Tasks :
       (/\ IsSaveWrite(p)
        /\ q # p /\ tasks[q].op = "save" /\ tasks[q].base = tasks[p].base
        /\ tasks[q].pending # None /\ hot = tasks[q].pending)
       => /\ hot'[1].distance_travelled >= hot[1].distance_travelled
          /\ hot'[1].laps >= hot[1].laps]_vars

\* C17: an operator call never writes the State it read over a State that
\* a save has written in between: its write does not take the hot State's
\* created_at backwards.
C17_OperatorExcluded ==
  [][\A p \in Tasks :
       (IsOperatorWrite(p) /\ hot # None)
       => hot'[1].created_at >= hot[1].created_at]_vars

\* C16: a save is atomic with respect to store failures: when the hot write
\* or the durable append fails the caller gets an error and neither store
\* shows any effect of the call.
C16_SaveAtomic ==
  (call.op = "save" /\ call.err # Ok) =>
    /\ hot = call.base
    /\ durable = call.dbase
====
